---- MODULE Spec2Model ----
(***************************************************************************)
(* Chess legality engine of LowLevelDesign/Chess/Chess.py: ChessPosition,  *)
(* MoveCommand, the Piece variants, ChessBoard and the ChessGame.run loop. *)
(* Objects live in a small heap: `boards` maps a board reference to the    *)
(* board object, and a King's _board_handle is such a reference.           *)
(***************************************************************************)
EXTENDS Integers, Sequences, FiniteSets, TLC

\* ------------------------------------------------------------------ bounds
\* Number of accepted moves after which no further input line is read.
MaxMoves == 4

\* --------------------------------------------------------------- constants
\* .constants is not part of the sources; the values follow the spec
\* ("8x8 board", "standard chess opening position").
CHESS_BOARD_SIZE == 8

KING == "king"
QUEEN == "queen"
KNIGHT == "knight"
ROOK == "rook"
BISHOP == "bishop"
PAWN == "pawn"

\* (type, x, y) of every White piece; Black is derived by _initialize_pieces.
INITIAL_PIECE_SET_SINGLE ==
    << <<ROOK, 0, 0>>, <<KNIGHT, 1, 0>>, <<BISHOP, 2, 0>>, <<QUEEN, 3, 0>>,
       <<KING, 4, 0>>, <<BISHOP, 5, 0>>, <<KNIGHT, 6, 0>>, <<ROOK, 7, 0>>,
       <<PAWN, 0, 1>>, <<PAWN, 1, 1>>, <<PAWN, 2, 1>>, <<PAWN, 3, 1>>,
       <<PAWN, 4, 1>>, <<PAWN, 5, 1>>, <<PAWN, 6, 1>>, <<PAWN, 7, 1>> >>

BLACK == "black"
WHITE == "white"

STATUS_WHITE_MOVE == "white_move"
STATUS_BLACK_MOVE == "black_move"
STATUS_WHITE_VICTORY == "white_victory"
STATUS_BLACK_VICTORY == "black_victory"

\* Python's None, and the marker of a call that ended by raising.
None == [none |-> TRUE]
Raised == [raised |-> TRUE]

\* References into the heap of boards: the game's board, the deepcopy made
\* by _try_move, and the throw-away copies behind the `pieces` property.
LIVE == "live"
SIM == "sim"
SNAP == "snap"

\* ------------------------------------------------------------ value types
ChessPosition(x, y) == [x_coord |-> x, y_coord |-> y]

MoveCommand(s, d) == [src |-> s, dst |-> d]

\* Characters are one-character strings, a text is a sequence of them.
Letters == {"a", "b", "c", "d", "e", "f", "g", "h", "i", "z"}
Digits == {"0", "1", "2", "3", "4", "5", "6", "7", "8", "9"}

\* ord() on the characters an input line is made of.
Ord(c) ==
    CASE c = " " -> 32
      [] c = "0" -> 48 [] c = "1" -> 49 [] c = "2" -> 50 [] c = "3" -> 51
      [] c = "4" -> 52 [] c = "5" -> 53 [] c = "6" -> 54 [] c = "7" -> 55
      [] c = "8" -> 56 [] c = "9" -> 57
      [] c = "a" -> 97 [] c = "b" -> 98 [] c = "c" -> 99 [] c = "d" -> 100
      [] c = "e" -> 101 [] c = "f" -> 102 [] c = "g" -> 103 [] c = "h" -> 104
      [] c = "i" -> 105 [] c = "z" -> 122

\* chr() on the codes of the digits and of the column letters a..i.
Chr(n) ==
    CASE n = 48 -> "0" [] n = 49 -> "1" [] n = 50 -> "2" [] n = 51 -> "3"
      [] n = 52 -> "4" [] n = 53 -> "5" [] n = 54 -> "6" [] n = 55 -> "7"
      [] n = 56 -> "8" [] n = 57 -> "9"
      [] n = 97 -> "a" [] n = 98 -> "b" [] n = 99 -> "c" [] n = 100 -> "d"
      [] n = 101 -> "e" [] n = 102 -> "f" [] n = 103 -> "g" [] n = 104 -> "h"
      [] n = 105 -> "i"

\* int(text) for a text of letters and digits: the decimal value of a
\* non-empty all-digit text, ValueError (Raised) for anything else.
RECURSIVE DecimalValue(_)
DecimalValue(s) ==
    IF Len(s) = 0 THEN 0
    ELSE 10 * DecimalValue(SubSeq(s, 1, Len(s) - 1)) + (Ord(s[Len(s)]) - 48)

PyInt(s) ==
    IF Len(s) > 0 /\ \A i \in 1..Len(s) : s[i] \in Digits
    THEN [value |-> DecimalValue(s)]
    ELSE Raised

\* str(n) for 0 <= n < 100.
RECURSIVE PyStr(_)
PyStr(n) ==
    IF n < 10 THEN <<Chr(48 + n)>>
    ELSE PyStr(n \div 10) \o <<Chr(48 + (n % 10))>>

\* ChessPosition.__str__
PositionToString(p) == <<Chr(Ord("a") + p.x_coord)>> \o PyStr(p.y_coord + 1)

\* from_string without the "- 1" on the row: the digits are taken as the
\* zero-based row.
PositionFromString_zero_based(string) ==
    IF Len(string) = 0 THEN Raised
    ELSE LET n == PyInt(SubSeq(string, 2, Len(string)))
         IN  IF n = Raised THEN Raised
             ELSE ChessPosition(Ord(string[1]) - Ord("a"), n.value)

\* ChessPosition.from_string: string[0] of an empty text raises IndexError,
\* int() of a non-number raises ValueError; no range is checked.
PositionFromString(string) ==
    IF Len(string) = 0 THEN Raised
    ELSE LET n == PyInt(SubSeq(string, 2, Len(string)))
         IN  IF n = Raised THEN Raised
             ELSE ChessPosition(Ord(string[1]) - Ord("a"), n.value - 1)

\* str.split(" "): every single space separates two tokens.
RECURSIVE Split(_)
Split(s) ==
    IF \A i \in 1..Len(s) : s[i] # " " THEN <<s>>
    ELSE LET k == CHOOSE i \in 1..Len(s) :
                      s[i] = " " /\ \A j \in 1..(i - 1) : s[j] # " "
         IN  <<SubSeq(s, 1, k - 1)>> \o Split(SubSeq(s, k + 1, Len(s)))

\* MoveCommand.from_string
MoveCommandFromString(string) ==
    LET tokens == Split(string)
    IN  IF Len(tokens) # 2 THEN None
        ELSE LET s == PositionFromString(tokens[1])
             IN  IF s = Raised THEN Raised
                 ELSE LET d == PositionFromString(tokens[2])
                      IN  IF d = Raised THEN Raised
                          ELSE IF s = None \/ d = None THEN None
                          ELSE MoveCommand(s, d)

\* ------------------------------------------------------------------ pieces
\* Piece.__init__ / King.__init__ / Pawn.__init__ through PieceFactory.create:
\* _moved is the Pawn's flag, _board_handle the King's reference to its board.
NO_HANDLE == "none"

PieceFactoryCreate(piece_type, position, color) ==
    [type |-> piece_type, color |-> color, position |-> position,
     moved |-> FALSE, board_handle |-> NO_HANDLE]

KING_SPOT_INCREMENTS ==
    << <<1, -1>>, <<1, 0>>, <<1, 1>>, <<0, 1>>, <<-1, 1>>, <<-1, 0>>, <<-1, -1>>, <<0, -1>> >>
QUEEN_BEAM_INCREMENTS ==
    << <<1, 1>>, <<1, -1>>, <<-1, 1>>, <<-1, -1>>, <<0, 1>>, <<0, -1>>, <<1, 0>>, <<-1, 0>> >>
KNIGHT_SPOT_INCREMENTS ==
    << <<2, 1>>, <<2, -1>>, <<-2, 1>>, <<-2, -1>>, <<1, 2>>, <<1, -2>>, <<-1, 2>>, <<-1, -2>> >>
ROOK_BEAM_INCREMENTS == << <<0, 1>>, <<0, -1>>, <<1, 0>>, <<-1, 0>> >>
BISHOP_BEAM_INCREMENTS == << <<1, 1>>, <<1, -1>>, <<-1, 1>>, <<-1, -1>> >>
SPOT_INCREMENTS_MOVE == << <<0, 1>> >>
SPOT_INCREMENTS_MOVE_FIRST == << <<0, 1>>, <<0, 2>> >>
SPOT_INCREMENTS_TAKE == << <<-1, 1>>, <<1, 1>> >>

\* ------------------------------------------------------------------- board
\* Index of the first piece of the list standing on `position`, 0 if none:
\* the scan shared by get_piece and by the deletion loop of execute_move.
FirstIndexAt(b, position) ==
    LET hits == {i \in 1..Len(b.pieces) : b.pieces[i].position = position}
    IN  IF hits = {} THEN 0
        ELSE CHOOSE i \in hits : \A j \in hits : i <= j

\* ChessBoard.get_piece
get_piece(b, position) ==
    LET i == FirstIndexAt(b, position)
    IN  IF i = 0 THEN None ELSE b.pieces[i]

\* ChessBoard.register_king_position on the board object behind reference r.
\* Colours are WHITE or BLACK only, the RuntimeError branch leaves the heap.
register_king_position(bs, r, position, color) ==
    IF color = WHITE THEN [bs EXCEPT ![r].white_king_position = position]
    ELSE IF color = BLACK THEN [bs EXCEPT ![r].black_king_position = position]
    ELSE bs

\* ChessBoard.beam_search_threat: the while loop from the square (curr_x, curr_y).
RECURSIVE beam_walk(_, _, _, _, _, _)
beam_walk(b, curr_x, curr_y, own_color, increment_x, increment_y) ==
    IF ~(curr_x >= 0 /\ curr_y >= 0 /\ curr_x < b.size /\ curr_y < b.size)
    THEN <<>>
    ELSE LET curr_position == ChessPosition(curr_x, curr_y)
             curr_piece == get_piece(b, curr_position)
         IN  IF curr_piece # None
             THEN IF curr_piece.color # own_color THEN <<curr_position>> ELSE <<>>
             ELSE <<curr_position>> \o
                  beam_walk(b, curr_x + increment_x, curr_y + increment_y,
                            own_color, increment_x, increment_y)

\* beam_search_threat without the first increment: the walk starts on the
\* start square itself.
beam_search_threat_from_start(b, start_position, own_color, increment_x, increment_y) ==
    beam_walk(b, start_position.x_coord, start_position.y_coord,
              own_color, increment_x, increment_y)

beam_search_threat(b, start_position, own_color, increment_x, increment_y) ==
    beam_walk(b, start_position.x_coord + increment_x,
              start_position.y_coord + increment_y,
              own_color, increment_x, increment_y)

\* spot_search_threat without the test of the colour: a square holding a
\* piece of the own colour is returned like one holding the other colour.
spot_search_threat_any_color(b, start_position, own_color, increment_x, increment_y, threat_only, free_only) ==
    LET curr_x == start_position.x_coord + increment_x
        curr_y == start_position.y_coord + increment_y
    IN  IF curr_x >= b.size \/ curr_y >= b.size \/ curr_x < 0 \/ curr_y < 0
        THEN None
        ELSE LET curr_position == ChessPosition(curr_x, curr_y)
                 curr_piece == get_piece(b, curr_position)
             IN  IF curr_piece # None
                 THEN IF ~free_only THEN curr_position ELSE None
                 ELSE IF ~threat_only THEN curr_position ELSE None

\* spot_search_threat without the free_only test: an enemy piece on the
\* probed square is returned in every mode.
spot_search_threat_ignore_free_only(b, start_position, own_color, increment_x, increment_y, threat_only, free_only) ==
    LET curr_x == start_position.x_coord + increment_x
        curr_y == start_position.y_coord + increment_y
    IN  IF curr_x >= b.size \/ curr_y >= b.size \/ curr_x < 0 \/ curr_y < 0
        THEN None
        ELSE LET curr_position == ChessPosition(curr_x, curr_y)
                 curr_piece == get_piece(b, curr_position)
             IN  IF curr_piece # None
                 THEN IF curr_piece.color # own_color THEN curr_position
                      ELSE None
                 ELSE IF ~threat_only THEN curr_position ELSE None

\* ChessBoard.spot_search_threat
spot_search_threat(b, start_position, own_color, increment_x, increment_y, threat_only, free_only) ==
    LET curr_x == start_position.x_coord + increment_x
        curr_y == start_position.y_coord + increment_y
    IN  IF curr_x >= b.size \/ curr_y >= b.size \/ curr_x < 0 \/ curr_y < 0
        THEN None
        ELSE LET curr_position == ChessPosition(curr_x, curr_y)
                 curr_piece == get_piece(b, curr_position)
             IN  IF curr_piece # None
                 THEN IF free_only THEN None
                      ELSE IF curr_piece.color # own_color THEN curr_position
                      ELSE None
                 ELSE IF ~threat_only THEN curr_position ELSE None

\* [x for x in positions if x is not None]
NotNone(positions) == SelectSeq(positions, LAMBDA x : x # None)

\* positions += beam_search_threat(...) over a list of increments.
RECURSIVE Beams(_, _, _, _)
Beams(b, piece, increments, k) ==
    IF k > Len(increments) THEN <<>>
    ELSE beam_search_threat(b, piece.position, piece.color,
                            increments[k][1], increments[k][2])
         \o Beams(b, piece, increments, k + 1)

\* positions.append(spot_search_threat(...)) over a list of increments.
Spots(b, piece, increments) ==
    [k \in 1..Len(increments) |->
        spot_search_threat(b, piece.position, piece.color,
                           increments[k][1], increments[k][2], FALSE, FALSE)]

\* The pawn's row increment: as written for White, negated for Black.
PawnDy(piece, dy) == IF piece.color = WHITE THEN dy ELSE (-1) * dy

\* Pawn.get_threatened_positions
PawnThreatened(piece, b) ==
    NotNone([k \in 1..Len(SPOT_INCREMENTS_TAKE) |->
        spot_search_threat(b, piece.position, piece.color,
                           SPOT_INCREMENTS_TAKE[k][1],
                           PawnDy(piece, SPOT_INCREMENTS_TAKE[k][2]),
                           FALSE, FALSE)])

\* get_moveable_positions without the test of _moved: the two-row advance is
\* offered on every move.
PawnMoveable_ignore_moved(piece, b) ==
    LET advances == [k \in 1..Len(SPOT_INCREMENTS_MOVE_FIRST) |->
            spot_search_threat(b, piece.position, piece.color,
                               SPOT_INCREMENTS_MOVE_FIRST[k][1],
                               PawnDy(piece, SPOT_INCREMENTS_MOVE_FIRST[k][2]),
                               FALSE, TRUE)]
        takes == [k \in 1..Len(SPOT_INCREMENTS_TAKE) |->
            spot_search_threat(b, piece.position, piece.color,
                               SPOT_INCREMENTS_TAKE[k][1],
                               PawnDy(piece, SPOT_INCREMENTS_TAKE[k][2]),
                               TRUE, FALSE)]
    IN  NotNone(advances \o takes)

\* Pawn.get_moveable_positions
PawnMoveable(piece, b) ==
    LET increments == IF piece.moved THEN SPOT_INCREMENTS_MOVE
                      ELSE SPOT_INCREMENTS_MOVE_FIRST
        advances == [k \in 1..Len(increments) |->
            spot_search_threat(b, piece.position, piece.color,
                               increments[k][1], PawnDy(piece, increments[k][2]),
                               FALSE, TRUE)]
        takes == [k \in 1..Len(SPOT_INCREMENTS_TAKE) |->
            spot_search_threat(b, piece.position, piece.color,
                               SPOT_INCREMENTS_TAKE[k][1],
                               PawnDy(piece, SPOT_INCREMENTS_TAKE[k][2]),
                               TRUE, FALSE)]
    IN  NotNone(advances \o takes)

\* get_threatened_positions of the piece's class.
get_threatened_positions(piece, b) ==
    CASE piece.type = KING -> NotNone(Spots(b, piece, KING_SPOT_INCREMENTS))
      [] piece.type = QUEEN -> Beams(b, piece, QUEEN_BEAM_INCREMENTS, 1)
      [] piece.type = KNIGHT -> NotNone(Spots(b, piece, KNIGHT_SPOT_INCREMENTS))
      [] piece.type = ROOK -> Beams(b, piece, ROOK_BEAM_INCREMENTS, 1)
      [] piece.type = BISHOP -> Beams(b, piece, BISHOP_BEAM_INCREMENTS, 1)
      [] piece.type = PAWN -> PawnThreatened(piece, b)

\* get_moveable_positions of the piece's class.
get_moveable_positions(piece, b) ==
    IF piece.type = PAWN THEN PawnMoveable(piece, b)
    ELSE get_threatened_positions(piece, b)

\* `x in list` with ChessPosition.__eq__
InList(position, positions) ==
    \E k \in 1..Len(positions) : positions[k] = position

\* Piece.move, Pawn.move and King.move on the piece object `piece`, which is
\* element i of the list of board r (i = 0: the object is in no list).
PieceMove(bs, r, i, piece, target_position) ==
    LET relocated ==
            IF i = 0 THEN bs
            ELSE [bs EXCEPT ![r].pieces[i].position = target_position,
                            ![r].pieces[i].moved =
                                IF piece.type = PAWN THEN TRUE ELSE @]
    IN  IF piece.type = KING
        THEN register_king_position(relocated, piece.board_handle,
                                    target_position, piece.color)
        ELSE relocated

RemoveAt(seq, i) == SubSeq(seq, 1, i - 1) \o SubSeq(seq, i + 1, Len(seq))

\* execute_move without the deletion loop: the piece on the destination stays.
execute_move_no_capture(bs, r, command) ==
    LET b == bs[r]
        si == FirstIndexAt(b, command.src)
    IN  IF si = 0 THEN bs
        ELSE PieceMove(bs, r, si, b.pieces[si], command.dst)

\* execute_move with its two steps exchanged: the source piece is moved
\* first, then the first piece found on the destination is deleted.
execute_move_move_first(bs, r, command) ==
    LET b == bs[r]
        si == FirstIndexAt(b, command.src)
        relocated == IF si = 0 THEN bs
                     ELSE PieceMove(bs, r, si, b.pieces[si], command.dst)
        ti == FirstIndexAt(relocated[r], command.dst)
    IN  IF ti = 0 THEN relocated
        ELSE [relocated EXCEPT ![r].pieces = RemoveAt(@, ti)]

\* ChessBoard.execute_move on the board object behind reference r.
execute_move(bs, r, command) ==
    LET b == bs[r]
        si == FirstIndexAt(b, command.src)
        ti == FirstIndexAt(b, command.dst)
        deleted == IF ti = 0 THEN bs
                   ELSE [bs EXCEPT ![r].pieces = RemoveAt(@, ti)]
        \* where the source piece object stands in the list after the deletion
        si2 == IF ti = 0 \/ si < ti THEN si
               ELSE IF si > ti THEN si - 1 ELSE 0
    IN  IF si = 0 THEN deleted
        ELSE PieceMove(deleted, r, si2, b.pieces[si], command.dst)

\* ChessBoard._initialize_pieces, from entry k of pieces_setup on.
RECURSIVE initialize_pieces(_, _, _, _)
initialize_pieces(bs, r, pieces_setup, k) ==
    IF k > Len(pieces_setup) THEN bs
    ELSE LET type == pieces_setup[k][1]
             x == pieces_setup[k][2]
             y == pieces_setup[k][3]
             size == bs[r].size
             created_white == PieceFactoryCreate(type, ChessPosition(x, y), WHITE)
             piece_white == IF type = KING
                            THEN [created_white EXCEPT !.board_handle = r]
                            ELSE created_white
             bs1 == IF type = KING
                    THEN register_king_position(bs, r, piece_white.position, WHITE)
                    ELSE bs
             bs2 == [bs1 EXCEPT ![r].pieces = Append(@, piece_white)]
             created_black == PieceFactoryCreate(
                 type, ChessPosition(size - x - 1, size - y - 1), BLACK)
             piece_black == IF type = KING
                            THEN [created_black EXCEPT !.board_handle = r]
                            ELSE created_black
             bs3 == IF type = KING
                    THEN register_king_position(bs2, r, piece_black.position, BLACK)
                    ELSE bs2
             bs4 == [bs3 EXCEPT ![r].pieces = Append(@, piece_black)]
         IN  initialize_pieces(bs4, r, pieces_setup, k + 1)

\* ChessBoard.__init__ into slot r of a heap with no other board.
ChessBoardInit(r) ==
    LET empty == [size |-> CHESS_BOARD_SIZE, pieces |-> <<>>,
                  white_king_position |-> None, black_king_position |-> None]
        heap == [x \in {LIVE, SIM} |-> IF x = r THEN empty ELSE None]
    IN  initialize_pieces(heap, r, INITIAL_PIECE_SET_SINGLE, 1)

\* A copy whose kings still hold the handle of the board they were copied from.
deepcopy_board_shared_handle(bs, from, to) == [bs EXCEPT ![to] = bs[from]]

\* deepcopy of the board object behind `from` into slot `to`: every piece is
\* copied, and a king's handle to the copied board becomes a handle to the copy.
deepcopy_board(bs, from, to) ==
    [bs EXCEPT ![to] =
        [bs[from] EXCEPT !.pieces =
            [i \in 1..Len(bs[from].pieces) |->
                [bs[from].pieces[i] EXCEPT !.board_handle =
                    IF @ = from THEN to ELSE @]]]]

\* ChessBoard.pieces: deepcopy(self._pieces); the copied kings point to a
\* copy of the board that nothing else references.
pieces_property(bs, r) ==
    [i \in 1..Len(bs[r].pieces) |->
        [bs[r].pieces[i] EXCEPT !.board_handle = IF @ = r THEN SNAP ELSE @]]

\* -------------------------------------------------------------------- game
VARIABLES
    boards,     \* the heap: LIVE is ChessGame._board, SIM the copy of _try_move
    status,     \* ChessGame._status
    finished,   \* ChessGame._finished
    pc,         \* where run() stands: input, try_move, king_scan, execute,
                \* notice, crashed
    line,       \* the text input() returned in this iteration of the loop
    command,    \* the local `command` of run() in this iteration of the loop
    printed,    \* what the renderer was asked for last: the board or the notice
    moves       \* accepted moves so far

vars == <<boards, status, finished, pc, line, command, printed, moves>>

\* The square names the input lines are built from; a9 and i1 lie outside
\* the 8x8 board.
Squares ==
    { <<"a", "1">>, <<"a", "9">>, <<"b", "8">>, <<"c", "3">>, <<"c", "4">>,
      <<"c", "6">>, <<"c", "8">>, <<"d", "1">>, <<"d", "2">>, <<"d", "5">>,
      <<"d", "7">>, <<"d", "8">>, <<"e", "1">>, <<"e", "2">>, <<"e", "4">>,
      <<"e", "5">>, <<"e", "7">>, <<"f", "2">>, <<"f", "3">>, <<"f", "4">>,
      <<"g", "1">>, <<"i", "1">> }

\* Lines that are no "<source> <destination>".
MalformedLines ==
    { <<>>,
      <<"e", "2">>,
      <<"e", "2", " ", "e", "4", " ", "e", "5">>,
      <<"e", "2", " ", " ", "e", "4">>,
      <<"e", "2", " ">>,
      <<" ", "e", "4">>,
      <<"e", "2", " ", "e">>,
      <<"e", "2", " ", "e", "z">>,
      <<"e", "z", " ", "e", "4">>,
      <<"2", "e", " ", "e", "4">> }

Lines == {s1 \o <<" ">> \o s2 : s1 \in Squares, s2 \in Squares} \cup MalformedLines

\* board_copy = self._board: no copy, the local names the game's board.
board_copy_alias == LIVE

\* board_copy = deepcopy(self._board): the reference the local is bound to.
board_copy == SIM

\* The locals of _try_move die when it returns.
Discard(bs) == [bs EXCEPT ![SIM] = None]

\* _try_move without the membership test of the destination: a piece of the
\* side to move may be sent to any square.
passes_source_checks_any_destination(bs, bc, st, cmd) ==
    LET src_piece == get_piece(bs[bc], cmd.src)
    IN  /\ src_piece # None
        /\ ~(\/ (st = STATUS_WHITE_MOVE /\ src_piece.color = BLACK)
             \/ (st = STATUS_BLACK_MOVE /\ src_piece.color = WHITE))

\* The source checks without the comparison of the piece's colour with the
\* side to move.
passes_source_checks_any_color(bs, bc, st, cmd) ==
    LET src_piece == get_piece(bs[bc], cmd.src)
    IN  /\ src_piece # None
        /\ ~(/\ ~InList(cmd.dst, get_moveable_positions(src_piece, bs[bc]))
             /\ ~InList(cmd.dst, get_threatened_positions(src_piece, bs[bc])))

\* _try_move up to the membership test: TRUE when none of the three early
\* `return False` is taken.
passes_source_checks(bs, bc, st, cmd) ==
    LET src_piece == get_piece(bs[bc], cmd.src)
    IN  /\ src_piece # None
        /\ ~(\/ (st = STATUS_WHITE_MOVE /\ src_piece.color = BLACK)
             \/ (st = STATUS_BLACK_MOVE /\ src_piece.color = WHITE))
        /\ ~(/\ ~InList(cmd.dst, get_moveable_positions(src_piece, bs[bc]))
             /\ ~InList(cmd.dst, get_threatened_positions(src_piece, bs[bc])))

\* _try_move without its king-safety loop: every command that passes the
\* source and destination checks is accepted.
king_scan_skipped(bs, bc, st) == TRUE

\* The king-safety loop with the two king positions exchanged: it looks at
\* the king of the side that is not moving.
king_scan_wrong_king(bs, bc, st) ==
    LET ps == pieces_property(bs, bc)
    IN  \A k \in 1..Len(ps) :
            /\ ~(st = STATUS_WHITE_MOVE /\
                 InList(bs[bc].black_king_position,
                        get_threatened_positions(ps[k], bs[bc])))
            /\ ~(st = STATUS_BLACK_MOVE /\
                 InList(bs[bc].white_king_position,
                        get_threatened_positions(ps[k], bs[bc])))

\* The loop over board_copy.pieces: TRUE when no `return False` is taken.
king_scan_passes(bs, bc, st) ==
    LET ps == pieces_property(bs, bc)
    IN  \A k \in 1..Len(ps) :
            /\ ~(st = STATUS_WHITE_MOVE /\
                 InList(bs[bc].white_king_position,
                        get_threatened_positions(ps[k], bs[bc])))
            /\ ~(st = STATUS_BLACK_MOVE /\
                 InList(bs[bc].black_king_position,
                        get_threatened_positions(ps[k], bs[bc])))

\* The status flip with a victory declared after Black's move.
flip_to_victory(st) ==
    IF st = STATUS_WHITE_MOVE THEN STATUS_BLACK_MOVE
    ELSE IF st = STATUS_BLACK_MOVE THEN STATUS_WHITE_VICTORY
    ELSE st

\* The status flip with its second branch lost: Black's move never hands the
\* turn back.
flip_white_only(st) ==
    IF st = STATUS_WHITE_MOVE THEN STATUS_BLACK_MOVE ELSE st

\* The status after an accepted move.
flip(st) ==
    IF st = STATUS_WHITE_MOVE THEN STATUS_BLACK_MOVE
    ELSE IF st = STATUS_BLACK_MOVE THEN STATUS_WHITE_MOVE
    ELSE st

Init ==
    /\ boards = ChessBoardInit(LIVE)
    /\ status = STATUS_WHITE_MOVE
    /\ finished = FALSE
    /\ pc = "input"
    /\ line = <<>>
    /\ command = None
    /\ printed = "board"
    /\ moves = 0

\* run(): command = self._parse_command(). A None goes to the notice, an
\* exception of the parser leaves run() and ends the program.
ReadCommand ==
    /\ pc = "input"
    /\ ~finished
    /\ moves < MaxMoves
    /\ \E l \in Lines :
        LET parsed == MoveCommandFromString(l)
        IN  /\ line' = l
            /\ IF parsed = Raised
               THEN /\ pc' = "crashed"
                    /\ UNCHANGED command
               ELSE IF parsed = None
               THEN /\ pc' = "notice"
                    /\ command' = None
               ELSE /\ pc' = "try_move"
                    /\ command' = parsed
    /\ UNCHANGED <<boards, status, finished, printed, moves>>

\* _try_move, from the deepcopy to execute_move on the copy.
TryMove ==
    /\ pc = "try_move"
    /\ LET copied == deepcopy_board(boards, LIVE, SIM)
       IN  IF passes_source_checks(copied, board_copy, status, command)
           THEN /\ boards' = execute_move(copied, board_copy, command)
                /\ pc' = "king_scan"
           ELSE /\ boards' = Discard(copied)
                /\ pc' = "notice"
    /\ UNCHANGED <<status, finished, line, command, printed, moves>>

\* _try_move, the king-safety loop and the return.
KingScan ==
    /\ pc = "king_scan"
    /\ pc' = IF king_scan_passes(boards, board_copy, status)
             THEN "execute" ELSE "notice"
    /\ boards' = Discard(boards)
    /\ UNCHANGED <<status, finished, line, command, printed, moves>>

\* run(): print_line("Invalid command, please re-enter.") and continue; the
\* line and the command of this iteration are not read again.
PrintNotice ==
    /\ pc = "notice"
    /\ printed' = "invalid"
    /\ pc' = "input"
    /\ line' = <<>>
    /\ command' = None
    /\ UNCHANGED <<boards, status, finished, moves>>

\* run(): execute_move on the game's board, the status flip and the render,
\* which ends the iteration.
ExecuteMove ==
    /\ pc = "execute"
    /\ boards' = execute_move(boards, LIVE, command)
    /\ status' = flip(status)
    /\ printed' = "board"
    /\ moves' = moves + 1
    /\ pc' = "input"
    /\ line' = <<>>
    /\ command' = None
    /\ UNCHANGED finished

Next == ReadCommand \/ TryMove \/ KingScan \/ PrintNotice \/ ExecuteMove

Spec == Init /\ [][Next]_vars

\* ---------------------------------------------------------- vocabulary
\* Notions the properties below are stated in.
Mover(st) == IF st = STATUS_WHITE_MOVE THEN WHITE ELSE BLACK
Opponent(color) == IF color = WHITE THEN BLACK ELSE WHITE

InRange(position) ==
    /\ position.x_coord \in 0..(CHESS_BOARD_SIZE - 1)
    /\ position.y_coord \in 0..(CHESS_BOARD_SIZE - 1)

\* The squares on which board b holds a King piece of `color`.
KingSquares(b, color) ==
    {b.pieces[i].position : i \in {j \in 1..Len(b.pieces) :
        b.pieces[j].type = KING /\ b.pieces[j].color = color}}

\* Some piece of board b threatens a square holding the King of `color`.
Attacked(b, color) ==
    \E i \in 1..Len(b.pieces) : \E sq \in KingSquares(b, color) :
        InList(sq, get_threatened_positions(b.pieces[i], b))

\* The game's board as it would be after applying cmd to it.
LiveAfter(cmd) == execute_move(boards, LIVE, cmd)[LIVE]

Square(x, y) == ChessPosition(x, y)
E1 == Square(4, 0)
E2 == Square(4, 1)
E4 == Square(4, 3)
E5 == Square(4, 4)
E7 == Square(4, 6)
E8 == Square(4, 7)
D1 == Square(3, 0)
D8 == Square(3, 7)

\* ------------------------------------------------------------------ claims

\* C1: a move that would leave the mover's own king on a square threatened by
\* some piece of the resulting board is never accepted (an accepted command,
\* applied to the game's board, leaves the mover's king unthreatened), and
\* after every accepted move the king of the side that just moved is not
\* threatened on the game's board.
C1_SelfCheckRejected ==
    /\ pc = "execute" => ~Attacked(LiveAfter(command), Mover(status))
    /\ (pc = "input" /\ moves > 0) =>
           ~Attacked(boards[LIVE], Opponent(Mover(status)))

\* C1 witness: a king move onto a threatened square has just been rejected.
C1_Witness ==
    /\ pc = "notice"
    /\ command # None
    /\ passes_source_checks(boards, LIVE, status, command)
    /\ get_piece(boards[LIVE], command.src).type = KING
    /\ Attacked(LiveAfter(command), Mover(status))

\* C2: an accepted pawn move that changes column lands on a square occupied
\* by an enemy piece.
C2_PawnDiagonalOnlyCapture ==
    pc = "execute" =>
        LET p == get_piece(boards[LIVE], command.src)
            t == get_piece(boards[LIVE], command.dst)
        IN  (p.type = PAWN /\ command.dst.x_coord # command.src.x_coord)
                => (t # None /\ t.color # p.color)

\* C3: no two pieces of the game's board stand on the same square (the
\* pieces occupy as many squares as there are pieces).
C3_OnePiecePerSquare ==
    Cardinality({boards[LIVE].pieces[i].position :
                    i \in 1..Len(boards[LIVE].pieces)})
        = Len(boards[LIVE].pieces)

\* C3 witness: a capture has been executed on the game's board.
C3_Witness ==
    /\ pc = "input"
    /\ Len(boards[LIVE].pieces) < 2 * Len(INITIAL_PIECE_SET_SINGLE)

\* The king index of board b agrees with the King pieces of b.
IndexConsistent(b) ==
    /\ KingSquares(b, WHITE) = {b.white_king_position}
    /\ KingSquares(b, BLACK) = {b.black_king_position}

\* C4: on the game's board and on the simulation copy the king index of each
\* colour equals the position of that colour's King piece of the same board,
\* and an entry of the game's board changes only in the execution of a move
\* of that king.
C4_KingIndex ==
    /\ [](\A r \in {LIVE, SIM} : boards[r] # None => IndexConsistent(boards[r]))
    /\ [][/\ boards'[LIVE].white_king_position # boards[LIVE].white_king_position
             => (pc = "execute" /\
                 command.src = boards[LIVE].white_king_position)
          /\ boards'[LIVE].black_king_position # boards[LIVE].black_king_position
             => (pc = "execute" /\
                 command.src = boards[LIVE].black_king_position)]_vars

\* C4 witness: the White king has moved on the game's board, and the Black
\* king has moved on the simulation copy only.
C4_Witness ==
    /\ pc = "king_scan"
    /\ boards[LIVE].white_king_position # E1
    /\ boards[SIM].black_king_position # boards[LIVE].black_king_position

\* C5: no step of the validation changes the game's board; the board changes
\* only in the execution of an accepted command.
C5_ValidationIsSpeculative ==
    [][/\ pc \in {"try_move", "king_scan"} => boards'[LIVE] = boards[LIVE]
       /\ boards'[LIVE] # boards[LIVE] => pc = "execute"]_vars

\* C5 witness: the simulation copy has performed a capture by a pawn (one
\* piece fewer, the pawn on the destination) while the game's board still has
\* the pawn on the source square and the captured piece on the destination.
C5_Witness ==
    /\ pc = "king_scan"
    /\ Len(boards[SIM].pieces) < Len(boards[LIVE].pieces)
    /\ get_piece(boards[SIM], command.dst).type = PAWN
    /\ get_piece(boards[SIM], command.src) = None
    /\ get_piece(boards[LIVE], command.src).type = PAWN
    /\ get_piece(boards[LIVE], command.dst) # None

C7_SourceIsMoversPiece ==
    pc \in {"king_scan", "execute"} =>
        /\ get_piece(boards[LIVE], command.src) # None
        /\ get_piece(boards[LIVE], command.src).color = Mover(status)

\* C7 witness: "e7 e5" on the initial board, White to move, has been rejected.
C7_Witness ==
    /\ pc = "notice"
    /\ moves = 0
    /\ command = MoveCommand(E7, E5)
    /\ get_piece(boards[LIVE], E7).color = BLACK

\* The columns on which board b holds pieces of the given kind and colour.
Columns(b, type, color) ==
    {b.pieces[i].position.x_coord : i \in {j \in 1..Len(b.pieces) :
        b.pieces[j].type = type /\ b.pieces[j].color = color}}

\* C8: the initial position is the standard opening position: 32 pieces on
\* distinct squares, White on rows 1-2, Black on rows 7-8, every kind of
\* piece on the same columns for both colours, kings on e1 and e8, queens on
\* d1 and d8.
C8_StandardOpening ==
    moves = 0 =>
        LET b == boards[LIVE]
        IN  /\ Len(b.pieces) = 32
            /\ \A i, j \in 1..Len(b.pieces) :
                   i # j => b.pieces[i].position # b.pieces[j].position
            /\ \A i \in 1..Len(b.pieces) :
                   b.pieces[i].position.y_coord \in
                       (IF b.pieces[i].color = WHITE THEN {0, 1} ELSE {6, 7})
            /\ \A t \in {KING, QUEEN, KNIGHT, ROOK, BISHOP, PAWN} :
                   Columns(b, t, WHITE) = Columns(b, t, BLACK)
            /\ KingSquares(b, WHITE) = {E1}
            /\ KingSquares(b, BLACK) = {E8}
            /\ get_piece(b, D1).type = QUEEN
            /\ get_piece(b, D8).type = QUEEN

\* C9: a command with a coordinate outside the board is never handed to the
\* validation.
C9_OutOfRangeNeverValidated ==
    pc = "try_move" => (InRange(command.src) /\ InRange(command.dst))

\* A position text: a column letter followed by a decimal row number.
IsPositionText(t) ==
    /\ Len(t) >= 2
    /\ t[1] \in Letters
    /\ \A i \in 2..Len(t) : t[i] \in Digits

\* A line that is not two position texts separated by one space.
Malformed(l) ==
    \/ Len(Split(l)) # 2
    \/ \E k \in 1..Len(Split(l)) : ~IsPositionText(Split(l)[k])

\* C10: a malformed line makes the parser return None without raising, and
\* the loop goes to the retry notice.
C10_MalformedYieldsNone ==
    (pc # "input" /\ Malformed(line)) => (pc = "notice" /\ command = None)

\* The pieces of board b that stand on neither of the two squares.
Bystanders(b, sq1, sq2) ==
    {b.pieces[i] : i \in {j \in 1..Len(b.pieces) :
        b.pieces[j].position # sq1 /\ b.pieces[j].position # sq2}}

\* A board without the references its kings hold.
Unreferenced(b) ==
    [b EXCEPT !.pieces = [i \in 1..Len(b.pieces) |->
        [b.pieces[i] EXCEPT !.board_handle = NO_HANDLE]]]

\* C11: the execution of an accepted command puts the piece of the source
\* square on the destination square, empties the source square, removes the
\* piece that stood on the destination (if any) and leaves every other piece
\* as it was; and the simulated board that was validated is the board the
\* execution produces.
C11_AcceptedMoveEffect ==
    /\ [](pc = "king_scan" =>
            Unreferenced(boards[SIM]) = Unreferenced(LiveAfter(command)))
    /\ [][pc = "execute" =>
           LET old == boards[LIVE]
               new == boards'[LIVE]
               mover == get_piece(old, command.src)
               target == get_piece(old, command.dst)
               arrived == get_piece(new, command.dst)
           IN  /\ arrived # None
               /\ arrived.type = mover.type
               /\ arrived.color = mover.color
               /\ get_piece(new, command.src) = None
               /\ Len(new.pieces) =
                      Len(old.pieces) - (IF target = None THEN 0 ELSE 1)
               /\ Bystanders(new, command.src, command.dst)
                      = Bystanders(old, command.src, command.dst)]_vars

\* C11 witness: "e2 e4" on the initial board has been executed: e4 holds the
\* White pawn, e2 is empty, Black is to move.
C11_Witness ==
    /\ moves = 1
    /\ pc = "input"
    /\ status = STATUS_BLACK_MOVE
    /\ get_piece(boards[LIVE], E2) = None
    /\ get_piece(boards[LIVE], E4) # None
    /\ get_piece(boards[LIVE], E4).type = PAWN
    /\ get_piece(boards[LIVE], E4).color = WHITE

\* The row direction in which the pawns of a colour advance, and the row on
\* which they start.
Forward(color) == IF color = WHITE THEN 1 ELSE -1
PawnStartRow(color) == IF color = WHITE THEN 1 ELSE CHESS_BOARD_SIZE - 2

\* The rows a command advances a piece of the given colour.
RowsAdvanced(cmd, color) == (cmd.dst.y_coord - cmd.src.y_coord) * Forward(color)

\* C12: a pawn's flag is set exactly when the pawn has left its starting row
\* (set by its first executed move, never reset, not set by rejected or
\* simulated moves); an executed straight pawn move advances one row, or two
\* rows if the flag was not set, onto an empty square, and never three or
\* more; only the execution of a command changes a flag, and no flag goes
\* back from set to not set.
C12_PawnAdvance ==
    /\ [](\A i \in 1..Len(boards[LIVE].pieces) :
            LET p == boards[LIVE].pieces[i]
            IN  p.type = PAWN =>
                    (p.moved <=> p.position.y_coord # PawnStartRow(p.color)))
    /\ [][/\ pc # "execute" => boards'[LIVE].pieces = boards[LIVE].pieces
          /\ pc = "execute" =>
               LET old == boards[LIVE]
                   new == boards'[LIVE]
                   mover == get_piece(old, command.src)
               IN  /\ (mover.type = PAWN /\
                       command.dst.x_coord = command.src.x_coord) =>
                          /\ RowsAdvanced(command, mover.color) \in
                                 (IF mover.moved THEN {1} ELSE {1, 2})
                          /\ get_piece(old, command.dst) = None
                   /\ mover.type = PAWN => get_piece(new, command.dst).moved
                   /\ \A i \in 1..Len(old.pieces) :
                        (/\ old.pieces[i].moved
                         /\ old.pieces[i].position # command.src
                         /\ old.pieces[i].position # command.dst) =>
                            \E j \in 1..Len(new.pieces) :
                                /\ new.pieces[j].position =
                                       old.pieces[i].position
                                /\ new.pieces[j].moved]_vars

\* C12 witness: a two-row advance of a pawn that has moved before, over an
\* empty square onto an empty square, has been rejected.
C12_Witness ==
    /\ pc = "notice"
    /\ command # None
    /\ get_piece(boards[LIVE], command.src) # None
    /\ get_piece(boards[LIVE], command.src).type = PAWN
    /\ get_piece(boards[LIVE], command.src).color = Mover(status)
    /\ get_piece(boards[LIVE], command.src).moved
    /\ command.dst.x_coord = command.src.x_coord
    /\ RowsAdvanced(command, Mover(status)) = 2
    /\ get_piece(boards[LIVE], command.dst) = None
    /\ get_piece(boards[LIVE],
                 ChessPosition(command.src.x_coord,
                               command.src.y_coord + Forward(Mover(status))))
           = None

\* All squares of the board, the eight directions, and the k-th square from
\* `start` in direction (dx, dy).
AllSquares ==
    {ChessPosition(x, y) : x \in 0..(CHESS_BOARD_SIZE - 1),
                           y \in 0..(CHESS_BOARD_SIZE - 1)}
Directions == {<<dx, dy>> \in {-1, 0, 1} \X {-1, 0, 1} : <<dx, dy>> # <<0, 0>>}
Along(start, k, dx, dy) ==
    ChessPosition(start.x_coord + k * dx, start.y_coord + k * dy)

Occupied(b, sq) == \E i \in 1..Len(b.pieces) : b.pieces[i].position = sq
OccupiedBy(b, sq, color) ==
    \E i \in 1..Len(b.pieces) :
        b.pieces[i].position = sq /\ b.pieces[i].color = color

\* The colours of the pieces standing on each square of the board.
ColoursOn(b) ==
    [sq \in AllSquares |->
        {b.pieces[i].color : i \in {j \in 1..Len(b.pieces) : b.pieces[j].position = sq}}]

\* The length of the maximal run of empty squares from `start` (exclusive)
\* in direction (dx, dy), on a board given by the colours on its squares.
FreeRun(on, start, dx, dy) ==
    LET free(k) == /\ InRange(Along(start, k, dx, dy))
                   /\ on[Along(start, k, dx, dy)] = {}
    IN  CHOOSE k \in 0..CHESS_BOARD_SIZE :
            /\ \A j \in 1..k : free(j)
            /\ ~free(k + 1)

\* The run of empty squares, followed by the square that ends it when that
\* square is on the board and holds a piece of the other colour.
ExpectedRay(on, n, start, own, dx, dy) ==
    LET stop == Along(start, n + 1, dx, dy)
    IN  [j \in 1..n |-> Along(start, j, dx, dy)]
        \o (IF InRange(stop) /\ Opponent(own) \in on[stop]
            THEN <<stop>> ELSE <<>>)

\* The scans of the game's board agree with ExpectedRay whenever a turn starts
\* on a freshly rendered board.
RaysAsExpected ==
    (pc = "input" /\ printed = "board") =>
        LET on == ColoursOn(boards[LIVE])
        IN  \A start \in AllSquares : \A d \in Directions :
                LET n == FreeRun(on, start, d[1], d[2])
                IN  \A own \in {WHITE, BLACK} :
                        beam_search_threat(boards[LIVE], start, own, d[1], d[2])
                            = ExpectedRay(on, n, start, own, d[1], d[2])

\* C13: on the game's board as each executed move leaves it, for every start
\* square, colour and direction, beam_search_threat returns in walking order
\* the maximal run of empty squares, followed by the first occupied square
\* exactly when it holds a piece of the other colour; nothing beyond it and
\* nothing off the board.
C13_RayScan == []RaysAsExpected

\* C13 witness: from d1 up the d-file the scan returns the five empty squares
\* d2..d6 and the Black pawn's square d7; from d5 towards the a-file of an
\* empty fifth row it returns every square up to the edge.
C13_Witness ==
    /\ pc = "input"
    /\ beam_search_threat(boards[LIVE], D1, WHITE, 0, 1)
           = [j \in 1..6 |-> Square(3, j)]
    /\ get_piece(boards[LIVE], Square(3, 6)) # None
    /\ beam_search_threat(boards[LIVE], Square(3, 4), WHITE, -1, 0)
           = <<Square(2, 4), Square(1, 4), Square(0, 4)>>

\* The number of pieces of a colour in the collection of board b, and the
\* squares they stand on.
PieceCount(b, color) ==
    Cardinality({i \in 1..Len(b.pieces) : b.pieces[i].color = color})
SquaresOf(b, color) ==
    {b.pieces[i].position : i \in {j \in 1..Len(b.pieces) : b.pieces[j].color = color}}

\* The offsets probed: every step of at most two columns and two rows.
Offsets == {-2, -1, 0, 1, 2} \X {-2, -1, 0, 1, 2}

\* The probes of the game's board obey the rules of the four modes whenever a
\* turn starts on a freshly rendered board.
ProbesAsExpected ==
    (pc = "input" /\ printed = "board") =>
        LET b == boards[LIVE]
            on == ColoursOn(b)
        IN  \A start \in SquaresOf(b, WHITE) \cup SquaresOf(b, BLACK) :
            \A d \in Offsets :
                LET sq == ChessPosition(start.x_coord + d[1], start.y_coord + d[2])
                    onboard == InRange(sq)
                    occupied == onboard /\ on[sq] # {}
                IN  \A own \in {WHITE, BLACK} :
                    \A threat_only \in BOOLEAN : \A free_only \in BOOLEAN :
                        LET got == spot_search_threat(b, start, own, d[1], d[2],
                                                      threat_only, free_only)
                        IN  /\ got \in {None, sq}
                            /\ (~onboard \/ (occupied /\ own \in on[sq])) => got = None
                            /\ (free_only /\ occupied) => got = None
                            /\ (threat_only /\ ~occupied) => got = None
                            /\ (/\ ~threat_only
                                /\ ~free_only
                                /\ onboard
                                /\ ~(occupied /\ own \in on[sq])) => got = sq

\* C14: on the game's board as each executed move leaves it, for every start
\* square that holds a piece (the probes of the pieces start from their own
\* square), every colour, offset and mode, spot_search_threat returns None
\* or the one square start + offset; None when that square is off the board
\* or holds a piece of the own colour; with free_only never an occupied
\* square; with threat_only never an empty square; in normal mode the square
\* when it is empty or holds a piece of the other colour.
C14_StepProbe == []ProbesAsExpected

\* C14 witness: with a Black pawn on d5 and e5 empty, the probe from the
\* White pawn's square e4 returns d5 in normal and threat_only mode and not
\* with free_only, and returns e5 with free_only and not with threat_only.
C14_Witness ==
    /\ pc = "input"
    /\ get_piece(boards[LIVE], E4) # None
    /\ get_piece(boards[LIVE], E4).color = WHITE
    /\ spot_search_threat(boards[LIVE], E4, WHITE, -1, 1, FALSE, FALSE) = Square(3, 4)
    /\ spot_search_threat(boards[LIVE], E4, WHITE, -1, 1, TRUE, FALSE) = Square(3, 4)
    /\ spot_search_threat(boards[LIVE], E4, WHITE, -1, 1, FALSE, TRUE) = None
    /\ spot_search_threat(boards[LIVE], E4, WHITE, 0, 1, FALSE, TRUE) = E5
    /\ spot_search_threat(boards[LIVE], E4, WHITE, 0, 1, TRUE, FALSE) = None

Abs(n) == IF n < 0 THEN (-1) * n ELSE n
Sgn(n) == IF n < 0 THEN -1 ELSE IF n > 0 THEN 1 ELSE 0

\* The distance of a move in king steps, and whether it runs along a row or
\* column, or along a diagonal.
Reach(cmd) ==
    LET dx == Abs(cmd.dst.x_coord - cmd.src.x_coord)
        dy == Abs(cmd.dst.y_coord - cmd.src.y_coord)
    IN  IF dx > dy THEN dx ELSE dy
Orthogonal(cmd) ==
    /\ cmd.src # cmd.dst
    /\ cmd.dst.x_coord = cmd.src.x_coord \/ cmd.dst.y_coord = cmd.src.y_coord
Diagonal(cmd) ==
    /\ cmd.src # cmd.dst
    /\ Abs(cmd.dst.x_coord - cmd.src.x_coord) = Abs(cmd.dst.y_coord - cmd.src.y_coord)

\* Every square strictly between the source and the destination of a move
\* along a line is empty on board b.
PathClear(b, cmd) ==
    \A k \in 1..(Reach(cmd) - 1) :
        ~Occupied(b, Along(cmd.src, k, Sgn(cmd.dst.x_coord - cmd.src.x_coord),
                                       Sgn(cmd.dst.y_coord - cmd.src.y_coord)))

\* The offsets of a knight's move.
LShaped(cmd) ==
    {Abs(cmd.dst.x_coord - cmd.src.x_coord), Abs(cmd.dst.y_coord - cmd.src.y_coord)}
        = {1, 2}

C18_PawnNeverJumps ==
    pc = "execute" =>
        LET b == boards[LIVE]
            piece == get_piece(b, command.src)
        IN  (/\ piece.type = PAWN
             /\ command.dst.x_coord = command.src.x_coord
             /\ Reach(command) = 2) =>
                /\ ~Occupied(b, Along(command.src, 1, 0, Forward(piece.color)))
                /\ ~Occupied(b, command.dst)

\* The number of King pieces of a colour in the collection of board b.
KingCount(b, color) ==
    Cardinality({i \in 1..Len(b.pieces) :
        b.pieces[i].type = KING /\ b.pieces[i].color = color})

\* Some piece of `color` can move or capture onto square sq of board b.
CanReach(b, color, sq) ==
    \E i \in 1..Len(b.pieces) :
        /\ b.pieces[i].color = color
        /\ \/ InList(sq, get_moveable_positions(b.pieces[i], b))
           \/ InList(sq, get_threatened_positions(b.pieces[i], b))

\* C19: the game's board holds exactly one White King and exactly one Black
\* King in every reachable state, and whenever a turn starts the king of the
\* side not to move stands on no square that a piece of the side to move can
\* move or capture onto.
C19_KingsNeverCaptured ==
    /\ KingCount(boards[LIVE], WHITE) = 1
    /\ KingCount(boards[LIVE], BLACK) = 1
    /\ (pc = "input") =>
           \A sq \in KingSquares(boards[LIVE], Opponent(Mover(status))) :
               ~CanReach(boards[LIVE], Mover(status), sq)

\* C19 witness: a turn starts after a capture, with the king of the side to
\* move threatened and both kings on the board.
C19_Witness ==
    /\ pc = "input"
    /\ printed = "board"
    /\ Len(boards[LIVE].pieces) = 2 * Len(INITIAL_PIECE_SET_SINGLE) - 1
    /\ Attacked(boards[LIVE], Mover(status))
    /\ KingCount(boards[LIVE], WHITE) = 1
    /\ KingCount(boards[LIVE], BLACK) = 1

\* C20: the step that executes an accepted move leaves the number of the
\* mover's pieces as it was and removes at most one piece, which is the piece
\* of the other colour that stood on the destination square; every other step
\* (reading, validating on the copy, rejecting with the notice) leaves the
\* collection of the game's board as it was; the number of pieces never grows.
C20_OnlyEnemyCapture ==
    [][LET before == boards[LIVE]
           after == boards'[LIVE]
       IN  /\ Len(after.pieces) <= Len(before.pieces)
           /\ (pc # "execute") => after.pieces = before.pieces
           /\ (pc = "execute") =>
                  LET own == Mover(status)
                      enemy == Opponent(own)
                  IN  /\ PieceCount(after, own) = PieceCount(before, own)
                      /\ Len(after.pieces) >= Len(before.pieces) - 1
                      /\ SquaresOf(after, enemy)
                             = SquaresOf(before, enemy) \ {command.dst}
                      /\ PieceCount(after, enemy) = Cardinality(SquaresOf(after, enemy))
      ]_vars

\* C20 witness: after a capture of a Black piece, with all sixteen White
\* pieces on the board, a request has been rejected with the notice.
C20_Witness ==
    /\ pc = "input"
    /\ printed = "invalid"
    /\ PieceCount(boards[LIVE], WHITE) = Len(INITIAL_PIECE_SET_SINGLE)
    /\ PieceCount(boards[LIVE], BLACK) = Len(INITIAL_PIECE_SET_SINGLE) - 1

\* ------------------------------------------- ChessPosition, text and back
\* A second specification, for ChessPosition alone: a position is built from
\* an in-range coordinate pair, rendered with __str__, the text parsed with
\* from_string, and the parsed position rendered again. `command` holds the
\* position in hand and `line` its text; the game's other variables stay as
\* the constructor leaves them.
InitRoundTrip ==
    /\ boards = ChessBoardInit(LIVE)
    /\ status = STATUS_WHITE_MOVE
    /\ finished = FALSE
    /\ printed = "board"
    /\ moves = 0
    /\ pc = "position"
    /\ line = <<>>
    /\ \E x \in 0..(CHESS_BOARD_SIZE - 1) : \E y \in 0..(CHESS_BOARD_SIZE - 1) :
           command = ChessPosition(x, y)

\* str(position)
RenderPosition ==
    /\ pc = "position"
    /\ line' = PositionToString(command)
    /\ pc' = "text"
    /\ UNCHANGED <<boards, status, finished, command, printed, moves>>

\* ChessPosition.from_string(text)
ParseText ==
    /\ pc = "text"
    /\ command' = PositionFromString(line)
    /\ pc' = "parsed"
    /\ UNCHANGED <<boards, status, finished, line, printed, moves>>

\* str(ChessPosition.from_string(text))
RenderParsed ==
    /\ pc = "parsed"
    /\ command # Raised
    /\ line' = PositionToString(command)
    /\ pc' = "rendered"
    /\ UNCHANGED <<boards, status, finished, command, printed, moves>>

NextRoundTrip == RenderPosition \/ ParseText \/ RenderParsed

SpecRoundTrip == InitRoundTrip /\ [][NextRoundTrip]_vars

\* C15: for every in-range coordinate pair, parsing the rendered text gives
\* a position equal to the one rendered (ParseText leaves the position in
\* hand as it was), and rendering the parsed position gives the text that
\* was parsed (RenderParsed leaves the text as it was).
C15_RoundTrip ==
    [][/\ (pc = "text") =>
            /\ command' = command
            /\ command'.x_coord \in 0..(CHESS_BOARD_SIZE - 1)
            /\ command'.y_coord \in 0..(CHESS_BOARD_SIZE - 1)
       /\ (pc = "parsed") => line' = line]_vars

\* C15 witness: the corner h8, column 7 and row 7, has been rendered, parsed
\* and rendered again, and the text in hand is "h8".
C15_Witness ==
    /\ pc = "rendered"
    /\ command = ChessPosition(CHESS_BOARD_SIZE - 1, CHESS_BOARD_SIZE - 1)
    /\ line = <<"h", "8">>

====
